---- MODULE Spec2Model ----
(***************************************************************************)
(* Model of nsp2clab.py: one run of main (token request, topology query,   *)
(* token revocation, translation, output file) and the pure translation    *)
(* generate_topology.                                                      *)
(*                                                                         *)
(* Python str values that the program splits (node and link names) are     *)
(* sequences of one-character strings; opaque str values (servers, tokens, *)
(* addresses, paths) are TLA+ strings.  JSON objects are functions with a  *)
(* string DOMAIN, so that a missing key is a key outside the DOMAIN.       *)
(***************************************************************************)
EXTENDS Integers, Sequences, FiniteSets, TLC

VARIABLES
    server,      \* main's parameter server
    username,    \* main's parameter / local username
    password,    \* main's parameter / local password
    output,      \* main's parameter / local output ("" when not given)
    proxy,       \* main's parameter proxy ("" when not given)
    environ,     \* os.environ: a function from the variables that are set
    proxies,     \* main's local proxies
    token,       \* main's local token
    l2topo,      \* main's local l2topo
    topology,    \* main's local topology
    calls,       \* the HTTP requests issued so far, with their outcomes
    printed,     \* the messages printed so far
    files,       \* the file system: path -> content
    writes,      \* number of times a file was opened for writing
    pc,          \* position of the run inside main
    raised,      \* the exception that ended the run ("" when none)
    exitStatus,  \* the process exit status (NoStatus while running)
    json_data,   \* input of a stand-alone generate_topology call
    result,      \* its result
    tpc,         \* position of the stand-alone call
    sessions,    \* the controllers: server -> tokens of its active sessions
    sessionsBefore, \* active sessions of the server before the token request
    spc          \* position of a token request followed by its revocation

vars == <<server, username, password, output, proxy, environ, proxies, token,
          l2topo, topology, calls, printed, files, writes, pc, raised,
          exitStatus, json_data, result, tpc, sessions, sessionsBefore, spc>>

mainVars == <<server, username, password, output, proxy, environ, proxies,
              token, l2topo, topology, calls, printed, files, writes, pc,
              raised, exitStatus>>

topoVars == <<json_data, result, tpc>>

ctlVars == <<sessions, sessionsBefore, spc>>

(***************************************************************************)
(* Bounds                                                                  *)
(***************************************************************************)
MaxNameLen == 7
MaxLinks == 2
MaxNodes == 3
MaxTokenLen == 2

NoStatus == 0 - 1

(***************************************************************************)
(* Values                                                                  *)
(***************************************************************************)
Unbound == [bound |-> FALSE]
Bound(v) == [bound |-> TRUE, value |-> v]

Ok(v) == [ok |-> TRUE, value |-> v]
\* an exception raised inside generate_topology
RaiseSwallowed(e) ==
    [ok |-> TRUE, value |-> [topology |-> [nodes |-> <<>>, links |-> <<>>]], error |-> e]

Raise(e) == [ok |-> FALSE, error |-> e]

Servers == {"nsp1", "nsp2"}
Usernames == {"admin", "oper"}
Passwords == {"pw1", "pw2"}
\* access tokens are opaque strings; their characters matter where the token
\* is pasted into the form body of the revocation request
Tokens == {<<"t", "1">>, <<"t", "+">>}
Statuses == {200, 401}
DefaultPath == "cwd/data.clab.yaml"
Paths == {"out.yaml", DefaultPath}

Absent == [exists |-> FALSE]
OldFile == [exists |-> TRUE, data |-> [old |-> TRUE]]
FileOf(doc) == [exists |-> TRUE, data |-> [yaml |-> doc]]

\* a response body: not parsable as JSON, or a JSON object or array
NotJson == [json |-> FALSE]
JsonObject(v) == [json |-> TRUE, type |-> "object", value |-> v]
JsonArray(v) == [json |-> TRUE, type |-> "array", value |-> v]

KNetwork == "ietf-network:network"
KNode == "node"
KLink == "ietf-network-topology:link"
KNodeId == "node-id"
KNodeAttrs == "ietf-l2-topology:l2-node-attributes"
KLinkAttrs == "ietf-l2-topology:l2-link-attributes"
KName == "name"
KMgmt == "management-address"

(***************************************************************************)
(* getBasicAuthentication: base64 of username + ":" + password.  Base64 is *)
(* injective on byte strings, so the encoded value is the tagged joined    *)
(* string.                                                                 *)
(***************************************************************************)
getBasicAuthentication(u, p) == [b64 |-> u \o ":" \o p]

BasicHeader(u, p) == [scheme |-> "Basic", credentials |-> getBasicAuthentication(u, p)]
BearerHeader(t) == [scheme |-> "Bearer", credentials |-> [raw |-> t]]

(***************************************************************************)
(* str.split('--'): leftmost occurrences, non-overlapping, left to right.  *)
(***************************************************************************)
DelimAt(s, i) == i + 1 <= Len(s) /\ s[i] = "-" /\ s[i + 1] = "-"

HasDelim(s) == \E i \in 1..Len(s) : DelimAt(s, i)

FindDelim(s) == CHOOSE i \in 1..Len(s) : DelimAt(s, i) /\ \A j \in 1..(i - 1) : ~DelimAt(s, j)

RECURSIVE Split(_)
Split(s) ==
    IF ~HasDelim(s) THEN <<s>>
    ELSE LET i == FindDelim(s)
         IN <<SubSeq(s, 1, i - 1)>> \o Split(SubSeq(s, i + 2, Len(s)))

\* lines 156-158: the endpoint pair of one link name
LinkEndpointsSecond(name) ==
    LET parts == Split(name)
    IN <<parts[1], parts[IF Len(parts) >= 2 THEN 2 ELSE 1]>>

LinkEndpoints(name) ==
    LET parts == Split(name)
    IN <<parts[1], parts[Len(parts)]>>

(***************************************************************************)
(* generate_topology                                                       *)
(***************************************************************************)
Has(obj, key) == key \in DOMAIN obj

\* line 152: the target entry of one node
NodeEntryLinuxKind(mgmt_ip) ==
    ("kind" :> "linux") @@ ("image" :> "containerlab/vr-sros") @@ ("mgmt-ipv4" :> mgmt_ip)

NodeEntry(mgmt_ip) ==
    ("kind" :> "nokia-sros") @@ ("image" :> "containerlab/vr-sros") @@ ("mgmt-ipv4" :> mgmt_ip)

\* lines 148-152: the node loop; acc is topology["topology"]["nodes"]
RECURSIVE NodeLoopFirstWins(_, _)
NodeLoopFirstWins(nodes, acc) ==
    IF nodes = <<>> THEN Ok(acc)
    ELSE LET node == Head(nodes)
         IN IF ~Has(node, KNodeId) THEN Raise("KeyError")
            ELSE IF ~Has(node, KNodeAttrs) THEN Raise("KeyError")
            ELSE IF ~Has(node[KNodeAttrs], KName) THEN Raise("KeyError")
            ELSE IF ~Has(node[KNodeAttrs], KMgmt) THEN Raise("KeyError")
            ELSE IF node[KNodeAttrs][KMgmt] = <<>> THEN Raise("IndexError")
            ELSE LET node_name == node[KNodeAttrs][KName]
                     node_mgmt_ip == node[KNodeAttrs][KMgmt][1]
                 IN NodeLoopFirstWins(Tail(nodes),
                             [n \in (DOMAIN acc) \cup {node_name} |->
                                 IF n \in DOMAIN acc THEN acc[n] ELSE NodeEntry(node_mgmt_ip)])

RECURSIVE NodeLoop(_, _)
NodeLoop(nodes, acc) ==
    IF nodes = <<>> THEN Ok(acc)
    ELSE LET node == Head(nodes)
         IN IF ~Has(node, KNodeId) THEN Raise("KeyError")
            ELSE IF ~Has(node, KNodeAttrs) THEN Raise("KeyError")
            ELSE IF ~Has(node[KNodeAttrs], KName) THEN Raise("KeyError")
            ELSE IF ~Has(node[KNodeAttrs], KMgmt) THEN Raise("KeyError")
            ELSE IF node[KNodeAttrs][KMgmt] = <<>> THEN Raise("IndexError")
            ELSE LET node_name == node[KNodeAttrs][KName]
                     node_mgmt_ip == node[KNodeAttrs][KMgmt][1]
                 IN NodeLoop(Tail(nodes),
                             [n \in (DOMAIN acc) \cup {node_name} |->
                                 IF n = node_name THEN NodeEntry(node_mgmt_ip) ELSE acc[n]])

\* lines 155-158: the link loop; acc is topology["topology"]["links"]
RECURSIVE LinkLoopDedup(_, _)
LinkLoopDedup(links, acc) ==
    IF links = <<>> THEN Ok(acc)
    ELSE LET link == Head(links)
         IN IF ~Has(link, KLinkAttrs) THEN Raise("KeyError")
            ELSE IF ~Has(link[KLinkAttrs], KName) THEN Raise("KeyError")
            ELSE LET entry == [endpoints |-> LinkEndpoints(link[KLinkAttrs][KName])]
                 IN LinkLoopDedup(Tail(links),
                                  IF \E i \in DOMAIN acc : acc[i] = entry
                                  THEN acc ELSE Append(acc, entry))

RECURSIVE LinkLoop(_, _)
LinkLoop(links, acc) ==
    IF links = <<>> THEN Ok(acc)
    ELSE LET link == Head(links)
         IN IF ~Has(link, KLinkAttrs) THEN Raise("KeyError")
            ELSE IF ~Has(link[KLinkAttrs], KName) THEN Raise("KeyError")
            ELSE LinkLoop(Tail(links),
                          Append(acc, [endpoints |-> LinkEndpoints(link[KLinkAttrs][KName])]))

\* lines 145 and 160: the dictionary that is returned
ReturnTopologyRejectEmpty(nodes, links) ==
    IF nodes = <<>> /\ links = <<>> THEN Raise("SchemaError")
    ELSE Ok([topology |-> [nodes |-> nodes, links |-> links]])

ReturnTopology(nodes, links) == Ok([topology |-> [nodes |-> nodes, links |-> links]])

\* json_data is a parsed body: JsonObject(v) or JsonArray(v)
generate_topology(parsed) ==
    IF parsed.type # "object" THEN Raise("TypeError")
    ELSE IF ~Has(parsed.value, KNetwork) THEN Raise("KeyError")
    ELSE IF parsed.value[KNetwork] = <<>> THEN Raise("IndexError")
    ELSE LET net == parsed.value[KNetwork][1]
         IN IF ~Has(net, KNode) THEN Raise("KeyError")
            ELSE LET ns == NodeLoop(net[KNode], <<>>)
                 IN IF ~ns.ok THEN ns
                    ELSE IF ~Has(net, KLink) THEN Raise("KeyError")
                    ELSE LET ls == LinkLoop(net[KLink], <<>>)
                         IN IF ~ls.ok THEN ls
                            ELSE ReturnTopology(ns.value, ls.value)

(***************************************************************************)
(* Inputs of a run of main                                                 *)
(***************************************************************************)
EnvFull == [NSP_SERVER : Servers, PROXY_USER : {"puser"}]
Environs == {[k \in D |-> e[k]] : e \in EnvFull, D \in SUBSET {"NSP_SERVER", "PROXY_USER"}}

NoProxies == [set |-> {}]
ProxiesOf(p) == [set |-> {"https"}, https |-> "http://" \o p]

NameA == <<"A">>
NameB == <<"B">>
LinkAB == <<"A", "-", "-", "B">>
LinkABC == <<"A", "-", "-", "B", "-", "-", "C">>
LinkNoDelim == <<"A">>

SrcNode(id, name, mgmt) ==
    (KNodeId :> id) @@ (KNodeAttrs :> ((KName :> name) @@ (KMgmt :> mgmt)))
SrcLink(name) == (KLinkAttrs :> (KName :> name))
SrcDoc(nodes, links) == (KNetwork :> <<(KNode :> nodes) @@ (KLink :> links)>>)

\* the bodies the controller may answer the topology query with
QueryBodies ==
    { NotJson,
      JsonArray(<<>>),
      JsonObject(("errors" :> "unauthorized")),
      JsonObject(SrcDoc(<<>>, <<>>)),
      JsonObject(SrcDoc(<<SrcNode("n1", NameA, <<"10.0.0.1", "10.0.0.2">>),
                          SrcNode("n2", NameB, <<"10.0.0.3">>)>>,
                        <<SrcLink(LinkAB), SrcLink(LinkABC)>>)),
      JsonObject(SrcDoc(<<SrcNode("n1", NameA, <<>>)>>, <<SrcLink(LinkAB)>>)),
      JsonObject(SrcDoc(<<SrcNode("n1", NameA, <<"10.0.0.1">>)>>, <<SrcLink(LinkNoDelim)>>)) }

\* the bodies the controller may answer the token request with
TokenBodies ==
    { NotJson,
      JsonArray(<<>>),
      JsonObject(("error" :> "invalid_grant")) }
    \cup { JsonObject(("access_token" :> t) @@ ("expires_in" :> "3600")) : t \in Tokens }

Response(st, b) == [kind |-> "response", status |-> st, body |-> b]
NetError(e) == [kind |-> "error", error |-> e]

TokenOutcomes ==
    {NetError("ProxyError"), NetError("ConnectionError")}
    \cup {Response(st, b) : st \in Statuses, b \in TokenBodies}
QueryOutcomes ==
    {NetError("ProxyError"), NetError("ConnectionError")}
    \cup {Response(st, b) : st \in Statuses, b \in QueryBodies}
RevokeOutcomes ==
    {NetError("ProxyError"), NetError("ConnectionError")}
    \cup {Response(st, NotJson) : st \in Statuses}

TokenPath == "/rest-gateway/rest/api/v1/auth/token"
RevocationPath == "/rest-gateway/rest/api/v1/auth/revocation"
TopoPath == "/restconf/data/ietf-network:networks/network=L2Topology"

Url(host, path) == [scheme |-> "https", host |-> host, path |-> path]

\* lines 52-65: the request getToken sends
TokenRequest(nsp_server, u, p, px) ==
    [op |-> "getToken", method |-> "POST", url |-> Url(nsp_server, TokenPath),
     contentType |-> "application/json",
     authorization |-> BasicHeader(u, p),
     body |-> [grant_type |-> "client_credentials"], verify |-> FALSE, proxies |-> px]

\* line 92: body = "token=" + token + "&token_type_hint=token", the token
\* pasted in as it is
TokenEq == <<"t", "o", "k", "e", "n", "=">>
HintSuffix ==
    <<"&", "t", "o", "k", "e", "n", "_", "t", "y", "p", "e", "_", "h", "i", "n", "t",
      "=", "t", "o", "k", "e", "n">>
RevokeBody(t) == TokenEq \o t \o HintSuffix

\* lines 91-103: the request revokeToken sends
RevokeRequestBearer(nsp_server, u, p, t, px) ==
    [op |-> "revokeToken", method |-> "POST", url |-> Url(nsp_server, RevocationPath),
     contentType |-> "application/x-www-form-urlencoded",
     authorization |-> BearerHeader(t),
     body |-> RevokeBody(t), verify |-> FALSE, proxies |-> px]

RevokeRequest(nsp_server, u, p, t, px) ==
    [op |-> "revokeToken", method |-> "POST", url |-> Url(nsp_server, RevocationPath),
     contentType |-> "application/x-www-form-urlencoded",
     authorization |-> BasicHeader(u, p),
     body |-> RevokeBody(t), verify |-> FALSE, proxies |-> px]

\* lines 123-133: the request retrieveNspL2IetfTopo sends
TopoRequest(nsp_server, px, headers) ==
    [op |-> "retrieveNspL2IetfTopo", method |-> "GET", url |-> Url(nsp_server, TopoPath),
     contentType |-> headers.ContentType,
     authorization |-> headers.Authorization,
     body |-> [none |-> TRUE], verify |-> FALSE, proxies |-> px]

Call(req, out) == [request |-> req, outcome |-> out]

MainTopoIdle == json_data = JsonObject(<<>>) /\ result = Unbound /\ tpc = "idle"

\* no controller is observed
CtlIdle == sessions = [s \in Servers |-> {}] /\ sessionsBefore = 0 /\ spc = "idle"

Init ==
    /\ server \in Servers
    /\ username \in {""} \cup {"admin"}
    /\ password \in {""} \cup {"pw1"}
    /\ output \in {"", "out.yaml"}
    /\ proxy \in {"", "proxy:8080"}
    /\ environ \in Environs
    /\ proxies = NoProxies
    /\ token = Unbound
    /\ l2topo = Unbound
    /\ topology = Unbound
    /\ calls = <<>>
    /\ printed = <<>>
    /\ files \in [Paths -> {Absent, OldFile}]
    /\ writes = 0
    /\ pc = "start"
    /\ raised = ""
    /\ exitStatus = NoStatus
    /\ MainTopoIdle
    /\ CtlIdle

\* an exception nobody catches: traceback, exit status 1
Uncaught(e) == pc' = "exited" /\ raised' = e /\ exitStatus' = 1

\* sys.exit(0)
SysExit0 == pc' = "exited" /\ raised' = "SystemExit" /\ exitStatus' = 0

\* the order of the statements of main after the token is extracted:
\* lines 215 (query), 222 (revoke), 224 (translate), 230 (write)
NextStepRevokeFirst(p) ==
    CASE p = "getToken" -> "revoke"
      [] p = "revoke" -> "query"
      [] p = "query" -> "translate"
      [] p = "translate" -> "write"

NextStepSkipRevoke(p) ==
    CASE p = "getToken" -> "query"
      [] p = "query" -> "translate"
      [] p = "revoke" -> "translate"
      [] p = "translate" -> "write"

NextStep(p) ==
    CASE p = "getToken" -> "query"
      [] p = "query" -> "revoke"
      [] p = "revoke" -> "translate"
      [] p = "translate" -> "write"

\* lines 192-200: except requests.exceptions.ProxyError; line 198 reads
\* os.environ['PROXY_USER'] while the message is built
ProxyErrorHandlerRetry ==
    /\ printed' = Append(printed, [msg |-> "proxy-auth-failed", user |-> ""])
    /\ pc' = IF Len(calls) < 2 THEN "getToken" ELSE "exited"
    /\ UNCHANGED <<raised, exitStatus>>

ProxyErrorHandler ==
    IF Has(environ, "PROXY_USER")
    THEN /\ printed' = Append(printed, [msg |-> "proxy-auth-failed", user |-> environ["PROXY_USER"]])
         /\ SysExit0
    ELSE /\ Uncaught("KeyError")
         /\ printed' = printed

\* lines 201-208: except KeyError
KeyErrorHandlerCleanup ==
    /\ printed' = Append(printed, [msg |-> "basic-auth-keyerror", user |-> ""])
    /\ pc' = "revoke"
    /\ UNCHANGED <<raised, exitStatus>>

KeyErrorHandler ==
    /\ printed' = Append(printed, [msg |-> "basic-auth-keyerror", user |-> ""])
    /\ SysExit0

\* lines 176-187: proxies, get_username, getpass
ResolveInputs ==
    /\ pc = "start"
    /\ proxies' = IF proxy # "" THEN ProxiesOf(proxy) ELSE NoProxies
    /\ IF username = "" THEN username' \in Usernames ELSE username' = username
    /\ IF password = "" THEN password' \in Passwords ELSE password' = password
    /\ pc' = "getToken"
    /\ UNCHANGED <<server, output, proxy, environ, token, l2topo, topology, calls,
                   printed, files, writes, raised, exitStatus>>
    /\ UNCHANGED topoVars
    /\ UNCHANGED ctlVars

\* lines 189-208: getToken and the two except clauses
GetTokenStep ==
    /\ pc = "getToken"
    /\ \E out \in TokenOutcomes :
        /\ calls' = Append(calls, Call(TokenRequest(server, username, password, proxies), out))
        /\ IF out.kind = "error" /\ out.error = "ProxyError"
           THEN ProxyErrorHandler /\ token' = token
           ELSE IF out.kind = "error"
           THEN Uncaught(out.error) /\ UNCHANGED <<printed, token>>
           ELSE IF ~out.body.json
           THEN Uncaught("JSONDecodeError") /\ UNCHANGED <<printed, token>>
           ELSE IF out.body.type # "object"
           THEN \* line 191 on a list
                /\ Uncaught("TypeError")
                /\ token' = Bound(out.body)
                /\ printed' = printed
           ELSE IF ~Has(out.body.value, "access_token")
           THEN KeyErrorHandler /\ token' = Bound(out.body)
           ELSE /\ token' = Bound(out.body.value["access_token"])
                /\ pc' = NextStep(pc)
                /\ UNCHANGED <<printed, raised, exitStatus>>
    /\ UNCHANGED <<server, username, password, output, proxy, environ, proxies,
                   l2topo, topology, files, writes>>
    /\ UNCHANGED topoVars
    /\ UNCHANGED ctlVars

\* lines 210-219: headers, os.environ["NSP_SERVER"], retrieveNspL2IetfTopo
QueryServer == environ["NSP_SERVER"]

QueryStep ==
    /\ pc = "query"
    /\ LET headers == [ContentType |-> "application/json", Authorization |-> BearerHeader(token.value)]
       IN IF ~Has(environ, "NSP_SERVER")
          THEN Uncaught("KeyError") /\ UNCHANGED <<calls, l2topo>>
          ELSE \E out \in QueryOutcomes :
                /\ calls' = Append(calls, Call(TopoRequest(QueryServer, proxies, headers), out))
                /\ IF out.kind = "error"
                   THEN Uncaught(out.error) /\ l2topo' = l2topo
                   ELSE IF ~out.body.json
                   THEN Uncaught("JSONDecodeError") /\ l2topo' = l2topo
                   ELSE /\ l2topo' = Bound(out.body)
                        /\ pc' = NextStep(pc)
                        /\ UNCHANGED <<raised, exitStatus>>
    /\ UNCHANGED <<server, username, password, output, proxy, environ, proxies,
                   token, topology, printed, files, writes>>
    /\ UNCHANGED topoVars
    /\ UNCHANGED ctlVars

\* line 222: revokeToken (lines 91-109)
RevokeStep ==
    /\ pc = "revoke"
    /\ \E out \in RevokeOutcomes :
        /\ calls' = Append(calls, Call(RevokeRequest(server, username, password, token.value, proxies), out))
        /\ IF out.kind = "error"
           THEN Uncaught(out.error) /\ printed' = printed
           ELSE /\ printed' = Append(printed,
                        [msg |-> IF out.status = 200 THEN "revoked" ELSE "revocation-error", user |-> ""])
                /\ pc' = NextStep(pc)
                /\ UNCHANGED <<raised, exitStatus>>
    /\ UNCHANGED <<server, username, password, output, proxy, environ, proxies,
                   token, l2topo, topology, files, writes>>
    /\ UNCHANGED topoVars
    /\ UNCHANGED ctlVars

\* line 224: generate_topology(l2topo)
TranslateStep ==
    /\ pc = "translate"
    /\ LET r == generate_topology(l2topo.value)
       IN IF r.ok
          THEN topology' = Bound(r.value) /\ pc' = NextStep(pc) /\ UNCHANGED <<raised, exitStatus>>
          ELSE Uncaught(r.error) /\ topology' = topology
    /\ UNCHANGED <<server, username, password, output, proxy, environ, proxies,
                   token, l2topo, calls, printed, files, writes>>
    /\ UNCHANGED topoVars
    /\ UNCHANGED ctlVars

\* lines 226-231: default path, open(output, 'w'), yaml.dump
WriteStep ==
    /\ pc = "write"
    /\ output' = IF output = "" THEN DefaultPath ELSE output
    /\ files' = [files EXCEPT ![output'] = FileOf(topology.value)]
    /\ writes' = writes + 1
    /\ pc' = "exited"
    /\ exitStatus' = 0
    /\ UNCHANGED <<server, username, password, proxy, environ, proxies, token,
                   l2topo, topology, calls, printed, raised>>
    /\ UNCHANGED topoVars
    /\ UNCHANGED ctlVars

Next ==
    \/ ResolveInputs
    \/ GetTokenStep
    \/ QueryStep
    \/ RevokeStep
    \/ TranslateStep
    \/ WriteStep

Spec == Init /\ [][Next]_vars

TypeOK ==
    /\ pc \in {"start", "getToken", "query", "revoke", "translate", "write", "exited"}
    /\ exitStatus \in {NoStatus, 0, 1}
    /\ writes \in 0..1

(***************************************************************************)
(* Stand-alone calls of generate_topology on documents of links            *)
(***************************************************************************)
Alphabet == {"A", "B", "C", "-"}
NamesUpTo(n) == UNION {[1..k -> Alphabet] : k \in 0..n}
SmallNames == {LinkAB, LinkNoDelim}

\* a document without nodes whose links have the given names
LinkDoc(names) == JsonObject(SrcDoc(<<>>, [i \in DOMAIN names |-> SrcLink(names[i])]))

\* no run of main is in progress
MainIdle ==
    /\ server = "nsp1" /\ username = "" /\ password = "" /\ output = "" /\ proxy = ""
    /\ environ = <<>> /\ proxies = NoProxies
    /\ token = Unbound /\ l2topo = Unbound /\ topology = Unbound
    /\ calls = <<>> /\ printed = <<>>
    /\ files = [p \in Paths |-> Absent] /\ writes = 0
    /\ pc = "idle" /\ raised = "" /\ exitStatus = NoStatus

InitLink ==
    /\ MainIdle
    /\ CtlIdle
    \* 1..MaxLinks links: one name of up to MaxNameLen characters at any
    \* position, the other names from SmallNames
    /\ \E n \in 1..MaxLinks, k \in 1..MaxLinks, nm \in NamesUpTo(MaxNameLen) :
         \E rest \in [1..n -> SmallNames] :
            /\ k <= n
            /\ json_data = LinkDoc([i \in 1..n |-> IF i = k THEN nm ELSE rest[i]])
    /\ result = Unbound
    /\ tpc = "call"

\* a call generate_topology(json_data) from outside main
TranslateCall ==
    /\ tpc = "call"
    /\ result' = generate_topology(json_data)
    /\ tpc' = "returned"
    /\ UNCHANGED json_data
    /\ UNCHANGED mainVars
    /\ UNCHANGED ctlVars

NextLink == TranslateCall

SpecLink == InitLink /\ [][NextLink]_vars

(***************************************************************************)
(* History of a run, read from the log of calls                            *)
(***************************************************************************)
CallsOf(op) == {i \in DOMAIN calls : calls[i].request.op = op}

IsResponse(out) == out.kind = "response"
IsProxyError(out) == out.kind = "error" /\ out.error = "ProxyError"

\* the token endpoint answered with a JSON object that has an access_token
GrantsToken(out) ==
    /\ IsResponse(out) /\ out.body.json /\ out.body.type = "object"
    /\ Has(out.body.value, "access_token")

\* the token endpoint answered with a JSON object without access_token
LacksTokenField(out) ==
    /\ IsResponse(out) /\ out.body.json /\ out.body.type = "object"
    /\ ~Has(out.body.value, "access_token")

\* the token endpoint answered with a body that holds no access_token at all
NoTokenInBody(out) ==
    /\ IsResponse(out)
    /\ ~out.body.json \/ out.body.type # "object" \/ ~Has(out.body.value, "access_token")

TokenGranted == \E i \in CallsOf("getToken") : GrantsToken(calls[i].outcome)
GrantedToken == calls[CHOOSE i \in CallsOf("getToken") : GrantsToken(calls[i].outcome)].outcome.body.value["access_token"]

\* the topology GET returned a parsable body
ReturnedDocument(out) == IsResponse(out) /\ out.body.json

Exited == pc = "exited"
NoOutputWritten == writes = 0 /\ \A p \in Paths : files[p] \in {Absent, OldFile}
GenerateTopologyNotRun == ~topology.bound /\ pc # "write"

(***************************************************************************)
(* Claims about a run of main (checked under Spec)                         *)
(***************************************************************************)
TokenOp == "getToken"
QueryOp == "retrieveNspL2IetfTopo"
RevokeOp == "revokeToken"

\* C1: once a run in which getToken returned an access token has ended, a
\* revokeToken call carrying that token has been issued, whatever happened
\* to the topology query.
C1_RevocationBeforeExit ==
    (Exited /\ TokenGranted) =>
        \E i \in CallsOf(RevokeOp) : calls[i].request.body = RevokeBody(GrantedToken)

\* C2: every network call of the run (token request, topology query,
\* revocation) targets the server given to main as its server argument.
C2_AllCallsTargetServerArgument ==
    \A i \in DOMAIN calls : calls[i].request.url.host = server

\* C3: when the token request fails with a ProxyError the run has ended, the
\* token request is the only network call ever issued and the output file
\* is not written.
C3_ProxyErrorEndsRun ==
    \A i \in CallsOf(TokenOp) :
        IsProxyError(calls[i].outcome) =>
            /\ Exited
            /\ Len(calls) = 1
            /\ CallsOf(QueryOp) = {} /\ CallsOf(RevokeOp) = {}
            /\ NoOutputWritten

C3_Witness ==
    /\ Exited
    /\ Len(calls) = 1
    /\ IsProxyError(calls[1].outcome)
    /\ raised = "SystemExit"

\* C4: when the token endpoint answers with a JSON object that has no
\* access_token field the run ends in the except KeyError clause (message
\* printed, sys.exit); for every body without an access token the topology
\* query and the revocation are never issued, generate_topology is never
\* run and no output file is created.
C4_MissingTokenAborts ==
    \A i \in CallsOf(TokenOp) :
        /\ LacksTokenField(calls[i].outcome) =>
              /\ Exited
              /\ raised = "SystemExit"
              /\ printed # <<>>
              /\ printed[Len(printed)].msg = "basic-auth-keyerror"
        /\ NoTokenInBody(calls[i].outcome) =>
              /\ Exited
              /\ CallsOf(QueryOp) = {} /\ CallsOf(RevokeOp) = {}
              /\ GenerateTopologyNotRun
              /\ NoOutputWritten

C4_Witness ==
    /\ Exited
    /\ Len(calls) = 1
    /\ LacksTokenField(calls[1].outcome)
    /\ calls[1].outcome.status = 401
    /\ files[DefaultPath] = Absent

\* C5: each of the three calls is issued at most once; the topology query
\* comes after a token request that returned a token and before the
\* revocation; the revocation comes after a token request that returned a
\* token and is the last network call; a token request that returned no
\* token ends the run with no other call.
C5_SessionLifecycle ==
    /\ \A op \in {TokenOp, QueryOp, RevokeOp} : Cardinality(CallsOf(op)) <= 1
    /\ \A q \in CallsOf(QueryOp) :
          /\ \E t \in CallsOf(TokenOp) : t < q /\ GrantsToken(calls[t].outcome)
          /\ \A r \in CallsOf(RevokeOp) : q < r
    /\ \A r \in CallsOf(RevokeOp) :
          /\ \E t \in CallsOf(TokenOp) : t < r /\ GrantsToken(calls[t].outcome)
          /\ r = Len(calls)
    /\ \A t \in CallsOf(TokenOp) :
          ~GrantsToken(calls[t].outcome) => Exited /\ Len(calls) = 1

C5_Witness ==
    /\ Exited
    /\ Len(calls) = 3
    /\ calls[1].request.op = TokenOp
    /\ calls[2].request.op = QueryOp
    /\ calls[3].request.op = RevokeOp
    /\ calls[3].outcome.kind = "response"
    /\ calls[3].outcome.status = 401

\* C6: when the topology GET returns a non-success status the query fails
\* instead of returning the body: the body is not kept as the topology
\* document, is not passed to generate_topology, and no output file is
\* written.
C6_NonSuccessQueryIsFatal ==
    \A q \in CallsOf(QueryOp) :
        (IsResponse(calls[q].outcome) /\ calls[q].outcome.status # 200) =>
            /\ ~l2topo.bound
            /\ GenerateTopologyNotRun
            /\ NoOutputWritten

\* C7: when the topology query succeeded with a well-formed document and the
\* revocation was attempted, the run ends with the output file written and
\* exit status 0, whatever the outcome of the revocation call.
C7_RevocationFailureNotFatal ==
    \A q \in CallsOf(QueryOp), r \in CallsOf(RevokeOp) :
        ( /\ Exited
          /\ IsResponse(calls[q].outcome) /\ calls[q].outcome.status = 200
          /\ calls[q].outcome.body.json
          /\ generate_topology(calls[q].outcome.body).ok ) =>
            writes = 1 /\ exitStatus = 0

\* C8: the output file is opened for writing at most once, and only when the
\* token request returned a token, the topology query returned a document,
\* the revocation was attempted after it and generate_topology returned the
\* document that is written; a run that ended with an exception or an early
\* exit left every file as it was.
C8_OutputWrittenOnlyAtEnd ==
    /\ writes <= 1
    /\ (writes > 0 \/ \E p \in Paths : files[p] \notin {Absent, OldFile}) =>
          /\ TokenGranted
          /\ \E q \in CallsOf(QueryOp) :
                /\ ReturnedDocument(calls[q].outcome)
                /\ \E r \in CallsOf(RevokeOp) : q < r
          /\ topology.bound
          /\ generate_topology(l2topo.value) = Ok(topology.value)
          /\ files[output] = FileOf(topology.value)
          /\ \A p \in Paths \ {output} : files[p] \in {Absent, OldFile}
          /\ Exited /\ raised = ""
    /\ (Exited /\ raised # "") => NoOutputWritten

C8_Witness ==
    /\ Exited
    /\ writes = 1
    /\ exitStatus = 0
    /\ output = DefaultPath
    /\ files[DefaultPath] = FileOf(topology.value)
    /\ topology.value.topology.links # <<>>

\* C9: every authentication failure of the token request (ProxyError, or a
\* JSON object without access_token) ends the run with exit status 0,
\* whatever the process environment holds.
C9_AuthFailureExitsZero ==
    \A t \in CallsOf(TokenOp) :
        (IsProxyError(calls[t].outcome) \/ LacksTokenField(calls[t].outcome)) =>
            Exited /\ exitStatus = 0

(***************************************************************************)
(* Claims about generate_topology (checked under SpecLink)                 *)
(***************************************************************************)
\* str.split('--') stated without recursion: inside a maximal run of "-"
\* the delimiters are the pairs at even offsets from the start of the run
DashRunBefore(s, i) ==
    CHOOSE k \in 0..(i - 1) :
        /\ \A j \in (i - k)..(i - 1) : s[j] = "-"
        /\ k = i - 1 \/ s[i - k - 1] # "-"

MatchAt(s, i) == DelimAt(s, i) /\ DashRunBefore(s, i) % 2 = 0
Matches(s) == {i \in 1..Len(s) : MatchAt(s, i)}
MinOf(S) == CHOOSE x \in S : \A y \in S : x <= y
MaxOf(S) == CHOOSE x \in S : \A y \in S : x >= y
FirstSegment(s) == SubSeq(s, 1, MinOf(Matches(s)) - 1)
LastSegment(s) == SubSeq(s, MaxOf(Matches(s)) + 2, Len(s))

SourceLinks(parsed) == parsed.value[KNetwork][1][KLink]
SourceLinkName(parsed, i) == SourceLinks(parsed)[i][KLinkAttrs][KName]

\* C10: for every source link whose name contains "--", the endpoint pair
\* generate_topology emits for it is [text before the first "--", text after
\* the last "--"]; "A--B" gives ["A","B"] and "A--B--C" gives ["A","C"].
C10_EndpointsFirstLastSegment ==
    tpc = "returned" =>
        /\ result.ok
        /\ \A i \in DOMAIN SourceLinks(json_data) :
              LET name == SourceLinkName(json_data, i)
                  pair == result.value.topology.links[i].endpoints
              IN /\ Matches(name) # {} <=> HasDelim(name)
                 /\ HasDelim(name) =>
                      pair = <<FirstSegment(name), LastSegment(name)>>
                 /\ name = LinkAB => pair = <<NameA, NameB>>
                 /\ name = LinkABC => pair = <<NameA, <<"C">> >>

C10_Witness ==
    /\ tpc = "returned"
    /\ result.ok
    /\ Len(SourceLinks(json_data)) = 2
    /\ SourceLinkName(json_data, 2) = LinkABC
    /\ result.value.topology.links[2].endpoints = <<NameA, <<"C">> >>

\* C11: when a source link's name does not contain "--", generate_topology
\* fails: it returns no target document and emits no endpoint pair for that
\* link.
C11_NoDelimiterFails ==
    tpc = "returned" =>
        ( (\E i \in DOMAIN SourceLinks(json_data) : ~HasDelim(SourceLinkName(json_data, i)))
            => ~result.ok )

(***************************************************************************)
(* Stand-alone calls of generate_topology on documents of nodes and links  *)
(***************************************************************************)
Ip1 == "10.0.0.1"
Ip2 == "10.0.0.2"
NodeIds == <<"n1", "n2", "n3", "n4", "n5">>

\* the l2-node-attributes a source node may carry: complete ones, and ones
\* without name, without management-address, with an empty address list
NodeAttrChoices ==
    { (KName :> nm) @@ (KMgmt :> mg) : nm \in {NameA, NameB}, mg \in {<<Ip1, Ip2>>, <<Ip2>>} }
    \cup { (KMgmt :> <<Ip1>>), (KName :> NameA), (KName :> NameA) @@ (KMgmt :> <<>>) }

\* a node is its attributes, with or without a node-id
NodeChoices ==
    { [id |-> TRUE, attrs |-> a] : a \in NodeAttrChoices }
    \cup { [id |-> FALSE, attrs |-> (KName :> NameB) @@ (KMgmt :> <<Ip1>>)] }

NodeOf(c, i) ==
    IF c.id THEN (KNodeId :> NodeIds[i]) @@ (KNodeAttrs :> c.attrs)
    ELSE (KNodeAttrs :> c.attrs)

\* the links a document may carry: named ones and one without a name
LinkChoices == { SrcLink(LinkAB), SrcLink(LinkABC), SrcLink(LinkNoDelim), (KLinkAttrs :> <<>>) }

SeqsUpTo(S, n) == UNION {[1..k -> S] : k \in 0..n}

InitTopo ==
    /\ MainIdle
    /\ CtlIdle
    /\ result = Unbound
    /\ tpc = "call"
    /\ \/ \E cs \in SeqsUpTo(NodeChoices, MaxNodes), ls \in SeqsUpTo(LinkChoices, MaxLinks) :
            json_data = JsonObject(SrcDoc([i \in DOMAIN cs |-> NodeOf(cs[i], i)], ls))
       \/ \E cs \in SeqsUpTo(NodeChoices, 1) :
            json_data = JsonObject((KNetwork :> <<(KNode :> [i \in DOMAIN cs |-> NodeOf(cs[i], i)])>>))
       \/ \E ls \in SeqsUpTo(LinkChoices, 1) :
            json_data = JsonObject((KNetwork :> <<(KLink :> ls)>>))
       \/ json_data \in { JsonArray(<<>>),
                          JsonObject(("errors" :> "unauthorized")),
                          JsonObject((KNetwork :> <<>>)) }

NextTopo == TranslateCall

SpecTopo == InitTopo /\ [][NextTopo]_vars

SourceNodes(parsed) == parsed.value[KNetwork][1][KNode]
SourceNodeName(parsed, i) == SourceNodes(parsed)[i][KNodeAttrs][KName]
SourceNodeMgmt(parsed, i) == SourceNodes(parsed)[i][KNodeAttrs][KMgmt]
SourceNames(parsed) == {SourceNodeName(parsed, i) : i \in DOMAIN SourceNodes(parsed)}
LastWithName(parsed, n) ==
    MaxOf({i \in DOMAIN SourceNodes(parsed) : SourceNodeName(parsed, i) = n})
TargetNodes == result.value.topology.nodes
TargetLinks == result.value.topology.links

\* C12: when generate_topology returns, its node mapping has one entry per
\* distinct display name of the source, and the entry of a name holds the
\* first management address of the last source node with that name.
C12_LastNodeWins ==
    (tpc = "returned" /\ result.ok) =>
        /\ DOMAIN TargetNodes = SourceNames(json_data)
        /\ Cardinality(DOMAIN TargetNodes) = Cardinality(SourceNames(json_data))
        /\ \A n \in SourceNames(json_data) :
              TargetNodes[n]["mgmt-ipv4"] =
                  SourceNodeMgmt(json_data, LastWithName(json_data, n))[1]

C12_Witness ==
    /\ tpc = "returned" /\ result.ok
    /\ Len(SourceNodes(json_data)) = 3
    /\ \A i \in 1..3 : SourceNodeName(json_data, i) = NameA
    /\ SourceNodeMgmt(json_data, 1) = <<Ip2>>
    /\ SourceNodeMgmt(json_data, 3) = <<Ip1, Ip2>>
    /\ DOMAIN TargetNodes = {NameA}
    /\ TargetNodes[NameA]["mgmt-ipv4"] = Ip1

\* C13: every entry of the returned node mapping is keyed by the display
\* name of a source node and is exactly kind "nokia-sros", image
\* "containerlab/vr-sros" and mgmt-ipv4 = the first management address of a
\* source node with that name.
C13_NodeEntryShape ==
    (tpc = "returned" /\ result.ok) =>
        \A n \in DOMAIN TargetNodes :
            \E i \in DOMAIN SourceNodes(json_data) :
                /\ SourceNodeName(json_data, i) = n
                /\ DOMAIN TargetNodes[n] = {"kind", "image", "mgmt-ipv4"}
                /\ TargetNodes[n]["kind"] = "nokia-sros"
                /\ TargetNodes[n]["image"] = "containerlab/vr-sros"
                /\ TargetNodes[n]["mgmt-ipv4"] = Head(SourceNodeMgmt(json_data, i))

C13_Witness ==
    /\ tpc = "returned" /\ result.ok
    /\ Len(SourceNodes(json_data)) = 2
    /\ \A i \in 1..2 : SourceNodeMgmt(json_data, i) = <<Ip1, Ip2>>
    /\ DOMAIN TargetNodes = {NameA, NameB}
    /\ \A n \in DOMAIN TargetNodes : TargetNodes[n]["mgmt-ipv4"] = Ip1

IsEmptyDocument(parsed) ==
    /\ parsed.type = "object"
    /\ Has(parsed.value, KNetwork)
    /\ parsed.value[KNetwork] # <<>>
    /\ Has(parsed.value[KNetwork][1], KNode) /\ parsed.value[KNetwork][1][KNode] = <<>>
    /\ Has(parsed.value[KNetwork][1], KLink) /\ parsed.value[KNetwork][1][KLink] = <<>>

\* C14: for a document whose node list and link list are both empty,
\* generate_topology raises nothing and returns exactly
\* {"topology": {"nodes": {}, "links": []}}.
C14_EmptyDocument ==
    (tpc = "returned" /\ IsEmptyDocument(json_data)) =>
        /\ result.ok
        /\ DOMAIN result.value = {"topology"}
        /\ DOMAIN result.value.topology = {"nodes", "links"}
        /\ DOMAIN TargetNodes = {}
        /\ Len(TargetLinks) = 0

C14_Witness == tpc = "returned" /\ IsEmptyDocument(json_data) /\ result.ok

\* what the code makes of one link name, stated without Split
ExpectedPair(name) ==
    IF Matches(name) = {} THEN <<name, name>>
    ELSE <<FirstSegment(name), LastSegment(name)>>

\* C18: when generate_topology returns, its link sequence has one entry per
\* source link, the i-th entry being the endpoint pair of the i-th source
\* link, whether or not equal links or unknown endpoints occur.
C18_LinksInSourceOrder ==
    (tpc = "returned" /\ result.ok) =>
        /\ Len(TargetLinks) = Len(SourceLinks(json_data))
        /\ \A i \in DOMAIN SourceLinks(json_data) :
              /\ DOMAIN TargetLinks[i] = {"endpoints"}
              /\ TargetLinks[i].endpoints = ExpectedPair(SourceLinkName(json_data, i))

C18_Witness ==
    /\ tpc = "returned" /\ result.ok
    /\ Len(SourceLinks(json_data)) = 2
    /\ \A i \in 1..2 : SourceLinkName(json_data, i) = LinkABC
    /\ SourceNames(json_data) = {NameA, NameB}
    /\ TargetLinks = << [endpoints |-> <<NameA, <<"C">> >>], [endpoints |-> <<NameA, <<"C">> >>] >>

(***************************************************************************)
(* Runs of main together with stand-alone calls of generate_topology       *)
(***************************************************************************)
InitAll == Init \/ InitTopo

NextAll == Next \/ NextTopo

SpecAll == InitAll /\ [][NextAll]_vars

\* every field the translation reads is present in a JSON object
HasAllFields(v) ==
    /\ Has(v, KNetwork)
    /\ v[KNetwork] # <<>>
    /\ Has(v[KNetwork][1], KNode)
    /\ Has(v[KNetwork][1], KLink)
    /\ \A i \in DOMAIN v[KNetwork][1][KNode] :
          LET node == v[KNetwork][1][KNode][i]
          IN /\ Has(node, KNodeId)
             /\ Has(node, KNodeAttrs)
             /\ Has(node[KNodeAttrs], KName)
             /\ Has(node[KNodeAttrs], KMgmt)
             /\ node[KNodeAttrs][KMgmt] # <<>>
    /\ \A i \in DOMAIN v[KNetwork][1][KLink] :
          LET link == v[KNetwork][1][KLink][i]
          IN Has(link, KLinkAttrs) /\ Has(link[KLinkAttrs], KName)

MissingField(parsed) == parsed.type = "object" /\ ~HasAllFields(parsed.value)

\* C15: a source document (a JSON object) that lacks a field the translation
\* reads makes generate_topology fail and return no target document; in a
\* run of main the failure is an exception that ends the run and the output
\* file is not written.
C15_MissingFieldFails ==
    /\ (tpc = "returned" /\ MissingField(json_data)) => ~result.ok
    /\ (l2topo.bound /\ MissingField(l2topo.value)) =>
          /\ ~topology.bound
          /\ pc # "write"
          /\ NoOutputWritten
          /\ Exited => raised \in {"KeyError", "IndexError", "ProxyError", "ConnectionError"}
          /\ (Exited /\ Len(calls) = 3 /\ IsResponse(calls[3].outcome)) =>
                raised \in {"KeyError", "IndexError"}

C15_Witness ==
    /\ Exited
    /\ l2topo.bound
    /\ MissingField(l2topo.value)
    /\ Len(calls) = 3
    /\ IsResponse(calls[3].outcome)
    /\ raised = "IndexError"
    /\ files[DefaultPath] = Absent /\ files["out.yaml"] = Absent

(***************************************************************************)
(* A token request followed immediately by the revocation of the granted   *)
(* token, against controllers that keep one session per granted token      *)
(***************************************************************************)
TokenAlphabet == {"t", "+", "&", "="}
SessionTokens == UNION {[1..k -> TokenAlphabet] : k \in 1..MaxTokenLen}
ValidCredentials == {<<"admin", "pw1">>}

\* application/x-www-form-urlencoded: fields separated by "&", name and
\* value separated by the first "=", "+" standing for a space
RECURSIVE FormFields(_)
FormFields(s) ==
    IF \A i \in DOMAIN s : s[i] # "&" THEN <<s>>
    ELSE LET i == CHOOSE k \in DOMAIN s : s[k] = "&" /\ \A j \in 1..(k - 1) : s[j] # "&"
         IN <<SubSeq(s, 1, i - 1)>> \o FormFields(SubSeq(s, i + 1, Len(s)))

FormDecode(s) == [i \in DOMAIN s |-> IF s[i] = "+" THEN " " ELSE s[i]]

FieldName(f) ==
    IF \A i \in DOMAIN f : f[i] # "=" THEN FormDecode(f)
    ELSE FormDecode(SubSeq(f, 1, (CHOOSE k \in DOMAIN f : f[k] = "=" /\ \A j \in 1..(k - 1) : f[j] # "=") - 1))

FieldValue(f) ==
    IF \A i \in DOMAIN f : f[i] # "=" THEN <<>>
    ELSE FormDecode(SubSeq(f, (CHOOSE k \in DOMAIN f : f[k] = "=" /\ \A j \in 1..(k - 1) : f[j] # "=") + 1, Len(f)))

\* the value of the first field with the given name, <<>> when there is none
FormValue(body, name) ==
    LET fs == FormFields(body)
        hits == {i \in DOMAIN fs : FieldName(fs[i]) = name}
    IN IF hits = {} THEN <<>> ELSE FieldValue(fs[MinOf(hits)])

ValidBasic(auth) ==
    /\ auth.scheme = "Basic"
    /\ \E c \in ValidCredentials : auth.credentials = getBasicAuthentication(c[1], c[2])

\* the controller at req.url.host answers one request; fresh is the token it
\* would grant.  Token endpoint: one new session per granted token.
\* Revocation endpoint: closes the session of the token named in the form.
ControllerHandle(req, sess, fresh) ==
    LET host == req.url.host
    IN IF ~ValidBasic(req.authorization)
       THEN [sessions |-> sess,
             response |-> Response(401, JsonObject(("error" :> "invalid_grant")))]
       ELSE IF req.method = "POST" /\ req.url.path = TokenPath
       THEN [sessions |-> [sess EXCEPT ![host] = @ \cup {fresh}],
             response |-> Response(200, JsonObject(("access_token" :> fresh) @@ ("expires_in" :> "3600")))]
       ELSE IF req.method = "POST" /\ req.url.path = RevocationPath
       THEN [sessions |-> [sess EXCEPT ![host] = @ \ {FormValue(req.body, <<"t", "o", "k", "e", "n">>)}],
             response |-> Response(200, NotJson)]
       ELSE [sessions |-> sess, response |-> Response(404, NotJson)]

InitSession ==
    /\ server \in Servers
    /\ username \in Usernames
    /\ password \in Passwords
    /\ output = "" /\ proxy = ""
    /\ environ = <<>> /\ proxies = NoProxies
    /\ token = Unbound /\ l2topo = Unbound /\ topology = Unbound
    /\ calls = <<>> /\ printed = <<>>
    /\ files = [p \in Paths |-> Absent] /\ writes = 0
    /\ pc = "idle" /\ raised = "" /\ exitStatus = NoStatus
    /\ MainTopoIdle
    /\ sessions \in [Servers -> {{}, {<<"t">>}}]
    /\ sessionsBefore = Cardinality(sessions[server])
    /\ spc = "start"

sessionOnly == <<server, username, password, output, proxy, environ, proxies,
                 l2topo, topology, printed, files, writes, pc, raised, exitStatus,
                 sessionsBefore>>

\* token = getToken(server, username, password, proxies)["access_token"]
AcquireCall ==
    /\ spc = "start"
    /\ LET req == TokenRequest(server, username, password, proxies)
       IN \/ \E e \in {"ProxyError", "ConnectionError"} :
                /\ calls' = Append(calls, Call(req, NetError(e)))
                /\ spc' = "failed"
                /\ UNCHANGED <<token, sessions>>
          \/ \E fresh \in SessionTokens \ sessions[server] :
                LET h == ControllerHandle(req, sessions, fresh)
                IN /\ calls' = Append(calls, Call(req, h.response))
                   /\ sessions' = h.sessions
                   /\ IF GrantsToken(h.response)
                      THEN token' = Bound(h.response.body.value["access_token"]) /\ spc' = "acquired"
                      ELSE token' = token /\ spc' = "failed"
    /\ UNCHANGED sessionOnly
    /\ UNCHANGED topoVars

\* revokeToken(server, username, password, token, proxies)
RevokeCall ==
    /\ spc = "acquired"
    /\ LET req == RevokeRequest(server, username, password, token.value, proxies)
       IN \/ \E e \in {"ProxyError", "ConnectionError"} :
                /\ calls' = Append(calls, Call(req, NetError(e)))
                /\ spc' = "failed"
                /\ UNCHANGED sessions
          \/ \E fresh \in SessionTokens \ sessions[server] :
                LET h == ControllerHandle(req, sessions, fresh)
                IN /\ calls' = Append(calls, Call(req, h.response))
                   /\ sessions' = h.sessions
                   /\ spc' = "revoked"
    /\ UNCHANGED token
    /\ UNCHANGED sessionOnly
    /\ UNCHANGED topoVars

NextSession == AcquireCall \/ RevokeCall

SpecSession == InitSession /\ [][NextSession]_vars

\* C17: after a token request with valid credentials and the revocation of
\* the granted token, both answered by the controller, the controller has as
\* many active sessions as before the token request.
C17_SessionCountRestored ==
    (spc = "revoked" /\ IsResponse(calls[2].outcome) /\ calls[2].outcome.status = 200) =>
        Cardinality(sessions[server]) = sessionsBefore

\* C19: in a run of main the characters between "token=" and
\* "&token_type_hint=token" in the revocation body are the access token the
\* token request returned, the topology query sends that same token as
\* Bearer credential, and the revocation carries the Basic credentials of
\* the token request, not the bearer token.
C19_SameTokenSameCredentials ==
    /\ \A q \in CallsOf(QueryOp) :
          /\ calls[q].request.authorization.scheme = "Bearer"
          /\ calls[q].request.authorization.credentials.raw = GrantedToken
    /\ \A r \in CallsOf(RevokeOp) :
          LET body == calls[r].request.body
              n == Len(GrantedToken)
          IN /\ Len(body) = 6 + n + 22
             /\ SubSeq(body, 1, 6) = <<"t", "o", "k", "e", "n", "=">>
             /\ SubSeq(body, 7, 6 + n) = GrantedToken
             /\ SubSeq(body, 7 + n, 7 + n) = <<"&">>
             /\ calls[r].request.authorization.scheme = "Basic"
             /\ calls[r].request.authorization.credentials = [b64 |-> username \o ":" \o password]
             /\ \A t \in CallsOf(TokenOp) :
                   calls[r].request.authorization = calls[t].request.authorization
             /\ \A q \in CallsOf(QueryOp) :
                   calls[q].request.authorization.credentials.raw = SubSeq(body, 7, 6 + n)

C19_Witness ==
    /\ Exited
    /\ Len(calls) = 3
    /\ calls[3].request.op = RevokeOp
    /\ IsResponse(calls[3].outcome)
    /\ GrantedToken = <<"t", "+">>
    /\ calls[2].request.authorization.credentials.raw = <<"t", "+">>
    /\ calls[3].request.authorization.credentials = [b64 |-> "oper:pw2"]

====
